---- MODULE Spec2Model ----
(***************************************************************************)
(* Model of the allowance report generator (src/allowance.py).             *)
(*                                                                         *)
(* Python strings are modelled as sequences of one-character strings, so   *)
(* that strip(), replace(), lower(), sorted() and the numeric conversion   *)
(* of format_currency are computed character by character.                 *)
(***************************************************************************)
EXTENDS Integers, Sequences, FiniteSets, TLC

VARIABLES
    pc,             \* position inside create_ichra_document
    csv_path,       \* argument csv_path: None or a path
    csv_status,     \* what the file system holds at csv_path
    header,         \* the fieldnames csv.DictReader reads from the first line
    file_rows,      \* the data rows of the file, in file order
    states_arg,     \* argument states: None or an explicit class list
    pos,            \* number of rows parse_allowance_csv has consumed
    allowances,     \* parse_allowance_csv local: class -> age key -> rate row
    classes,        \* parse_allowance_csv local: set of class names
    states,         \* create_ichra_document local: the class list in use
    allowance_data, \* create_ichra_document local: the table in use
    links,          \* hyperlinks of the title page, in document order
    sections,       \* per-class sections (heading, bookmark, table)
    saved,          \* whether doc.save(output_filename) has run
    error,          \* the exception that left create_ichra_document, if any
    fmt_in,         \* argument of a direct call of format_currency
    fmt_done,       \* whether that call has returned
    fmt_out,        \* its result
    disk,           \* the two files the upload form works with
    req             \* the requests of the upload form (src/app.py)

vars == <<pc, csv_path, csv_status, header, file_rows, states_arg, pos,
          allowances, classes, states, allowance_data, links, sections,
          saved, error, fmt_in, fmt_done, fmt_out, disk, req>>

\* The path values of csv_path: None, or the name of a file.
None == "None"
CsvFile == "allowances.csv"

\* An optional argument holding a list: None is <<>>, a list L is <<L>>.
NoList == <<>>
SomeList(L) == <<L>>

(***************************************************************************)
(* Characters and Python's str methods                                     *)
(***************************************************************************)

\* The characters the model uses, in ascending code point order.
CodeOrder ==
    <<"\t", " ", "$", "(", ")", "+", ",", "-", ".",
      "0", "1", "2", "3", "4", "5", "6", "7", "8", "9",
      "A", "B", "C", "N", "O", "Y", "_",
      "a", "b", "c", "d", "e", "h", "i", "k", "l", "m", "n", "o", "p", "r",
      "s", "u", "w", "y">>

Ord(c) == CHOOSE i \in DOMAIN CodeOrder : CodeOrder[i] = c

UpperCase == <<"A", "B", "C", "N", "O", "Y">>
LowerCase == <<"a", "b", "c", "n", "o", "y">>

\* str.lower() on one character
LowerChar(c) ==
    IF \E i \in DOMAIN UpperCase : UpperCase[i] = c
    THEN LowerCase[CHOOSE i \in DOMAIN UpperCase : UpperCase[i] = c]
    ELSE c

Lower(s) == [i \in DOMAIN s |-> LowerChar(s[i])]

\* str.replace(old, new) for one-character old and new
Replace(s, old, new) == [i \in DOMAIN s |-> IF s[i] = old THEN new ELSE s[i]]

\* str.replace(old, '') for a one-character old
Remove(s, old) == SelectSeq(s, LAMBDA c : c # old)

IsSpace(c) == c \in {" ", "\t"}

RECURSIVE LStrip(_)
LStrip(s) == IF s # <<>> /\ IsSpace(Head(s)) THEN LStrip(Tail(s)) ELSE s

RECURSIVE RStrip(_)
RStrip(s) ==
    IF s # <<>> /\ IsSpace(s[Len(s)]) THEN RStrip(SubSeq(s, 1, Len(s) - 1)) ELSE s

\* str.strip()
Strip(s) == RStrip(LStrip(s))

\* lexicographic order of str by code point: s < t
RECURSIVE StrLess(_, _)
StrLess(s, t) ==
    IF t = <<>> THEN FALSE
    ELSE IF s = <<>> THEN TRUE
    ELSE IF Head(s) = Head(t) THEN StrLess(Tail(s), Tail(t))
    ELSE Ord(Head(s)) < Ord(Head(t))

(***************************************************************************)
(* format_currency                                                         *)
(***************************************************************************)

Digits == <<"0", "1", "2", "3", "4", "5", "6", "7", "8", "9">>
IsDigit(c) == \E i \in DOMAIN Digits : Digits[i] = c
DigitVal(c) == (CHOOSE i \in DOMAIN Digits : Digits[i] = c) - 1

RECURSIVE DigitsToNat(_)
DigitsToNat(s) ==
    IF s = <<>> THEN 0
    ELSE 10 * DigitsToNat(SubSeq(s, 1, Len(s) - 1)) + DigitVal(s[Len(s)])

RECURSIVE NatToDigits(_)
NatToDigits(n) ==
    IF n < 10 THEN <<Digits[n + 1]>>
    ELSE NatToDigits(n \div 10) \o <<Digits[(n % 10) + 1]>>

HasSign(s) == s # <<>> /\ Head(s) \in {"+", "-"}
Unsigned(s) == IF HasSign(s) THEN Tail(s) ELSE s
DotAt(s) == IF \E i \in DOMAIN s : s[i] = "."
            THEN CHOOSE i \in DOMAIN s : s[i] = "."
            ELSE Len(s) + 1

\* Whether float(s) accepts s: an optional sign, then digits with at most one
\* decimal point and at least one digit.  (Exponents, underscores, "inf" and
\* "nan" need characters outside the alphabet the model draws values from.)
FloatAccepts(s) ==
    LET b == Unsigned(Strip(s))
    IN  /\ \A i \in DOMAIN b : IsDigit(b[i]) \/ b[i] = "."
        /\ Cardinality({i \in DOMAIN b : b[i] = "."}) <= 1
        /\ \E i \in DOMAIN b : IsDigit(b[i])

\* A variant of IntOfFloat that rounds half up instead of truncating.
IntOfFloatRounded(s) ==
    LET t == Strip(s)
        b == Unsigned(t)
        whole == DigitsToNat(SubSeq(b, 1, DotAt(b) - 1))
        up == DotAt(b) < Len(b) /\ DigitVal(b[DotAt(b) + 1]) >= 5
        mag == IF up THEN whole + 1 ELSE whole
    IN  IF HasSign(t) /\ Head(t) = "-" THEN 0 - mag ELSE mag

\* int(float(s)) for an accepted s: conversion truncates toward zero
IntOfFloat(s) ==
    LET t == Strip(s)
        b == Unsigned(t)
        whole == DigitsToNat(SubSeq(b, 1, DotAt(b) - 1))
    IN  IF HasSign(t) /\ Head(t) = "-" THEN 0 - whole ELSE whole

\* the ',' option of the format specification: groups of three from the right
RECURSIVE Grouped(_)
Grouped(d) ==
    IF Len(d) <= 3 THEN d
    ELSE Grouped(SubSeq(d, 1, Len(d) - 3)) \o <<",">> \o SubSeq(d, Len(d) - 2, Len(d))

\* f'${amount:,}'
FormatAmount(amount) ==
    <<"$">> \o (IF amount < 0 THEN <<"-">> ELSE <<>>)
            \o Grouped(NatToDigits(IF amount < 0 THEN 0 - amount ELSE amount))

CleanValue(value) == Strip(Remove(Remove(value, "$"), ","))

\* A variant of format_currency whose except clause returns ''.
format_currency_blank(value) ==
    IF value = <<>> THEN <<>>
    ELSE LET clean_value == CleanValue(value)
         IN  IF clean_value = <<>> THEN <<>>
             ELSE IF FloatAccepts(clean_value)
                  THEN FormatAmount(IntOfFloat(clean_value))
                  ELSE <<>>

format_currency(value) ==
    IF value = <<>> THEN <<>>
    ELSE LET clean_value == CleanValue(value)
         IN  IF clean_value = <<>> THEN <<>>
             ELSE IF FloatAccepts(clean_value)
                  THEN FormatAmount(IntOfFloat(clean_value))
                  ELSE value

(***************************************************************************)
(* parse_allowance_csv                                                     *)
(***************************************************************************)

Fields == <<"EE", "ES", "EC1", "EC2", "ECmax", "FA1", "FA2", "FAmax">>
FieldSet == {Fields[i] : i \in DOMAIN Fields}

EmptyDict == [k \in {} |-> {}]

\* dict.get(k, default)
Get(d, k, default) == IF k \in DOMAIN d THEN d[k] ELSE default

\* d[k] = v
Put(d, k, v) == [x \in DOMAIN d \cup {k} |-> IF x = k THEN v ELSE d[x]]

\* The dict csv.DictReader yields for a data row: one entry per fieldname.
DictRow(h, row) == [col \in h |-> row[col]]

\* A variant of AgeKey that never maps '64' to '64+'.
AgeKeyNoRemap(age_from) == age_from

\* age_key = age_from if age_from != '64' else '64+'
AgeKey(age_from) == IF age_from # <<"6", "4">> THEN age_from ELSE <<"6", "4", "+">>

\* the dict literal stored for a row (lines 166-175)
RateRow(row) == [f \in FieldSet |-> Strip(Get(row, f, <<>>))]

\* A variant of StoreRow that merges a repeated key field by field.
StoreRowMerge(a, row) ==
    LET class_name == Strip(row["class"])
        age_from == Strip(row["ageFrom"])
        inner == Get(a, class_name, EmptyDict)
        new == RateRow(row)
        merged == IF AgeKey(age_from) \in DOMAIN inner
                  THEN [f \in FieldSet |->
                          IF new[f] = <<>> THEN inner[AgeKey(age_from)][f]
                          ELSE new[f]]
                  ELSE new
    IN  Put(a, class_name, Put(inner, AgeKey(age_from), merged))

\* the body of the loop for one row whose 'class' and 'ageFrom' exist
StoreRow(a, row) ==
    LET class_name == Strip(row["class"])
        age_from == Strip(row["ageFrom"])
        inner == Get(a, class_name, EmptyDict)
    IN  Put(a, class_name, Put(inner, AgeKey(age_from), RateRow(row)))

\* A variant of Sorted that compares the names without regard to case.
RECURSIVE SortedIgnoreCase(_)
SortedIgnoreCase(S) ==
    IF S = {} THEN <<>>
    ELSE LET m == CHOOSE x \in S :
                     \A y \in S \ {x} : ~StrLess(Lower(y), Lower(x))
         IN  <<m>> \o SortedIgnoreCase(S \ {m})

\* sorted(list(classes))
RECURSIVE Sorted(_)
Sorted(S) ==
    IF S = {} THEN <<>>
    ELSE LET m == CHOOSE x \in S : \A y \in S \ {x} : StrLess(x, y)
         IN  <<m>> \o Sorted(S \ {m})

(***************************************************************************)
(* create_ichra_document                                                   *)
(***************************************************************************)

\* state.lower().replace(' ', '_').replace('-', '_')
AnchorName(state) == Replace(Replace(Lower(state), " ", "_"), "-", "_")

TableRows == 48
TableCols == 9

headers ==
    << <<"A","g","e">>,
       <<"Y","o","u">>,
       <<"Y","o","u"," ","+"," ","s","p","o","u","s","e">>,
       <<"Y","o","u"," ","+"," ","1"," ","c","h","i","l","d">>,
       <<"Y","o","u"," ","+"," ","2"," ","c","h","i","l","d","r","e","n">>,
       <<"Y","o","u"," ","+"," ","3"," ","(","o","r"," ","m","o","r","e",")",
         " ","c","h","i","l","d","r","e","n">>,
       <<"Y","o","u"," ","+"," ","s","p","o","u","s","e"," ","+"," ","1"," ",
         "c","h","i","l","d">>,
       <<"Y","o","u"," ","+"," ","s","p","o","u","s","e"," ","+"," ","2"," ",
         "c","h","i","l","d","r","e","n">>,
       <<"Y","o","u"," ","+"," ","s","p","o","u","s","e"," ","+"," ","3"," ",
         "(","o","r"," ","m","o","r","e",")"," ","c","h","i","l","d","r","e","n">> >>

\* A variant of ages whose range runs one age too far.
agesOneMore == [i \in 1..(65 - 18) |-> NatToDigits(18 + i - 1)] \o << <<"6", "4", "+">> >>

\* [str(age) for age in list(range(18, 64)) + ['64+']]
ages == [i \in 1..(64 - 18) |-> NatToDigits(18 + i - 1)] \o << <<"6", "4", "+">> >>

\* A variant of column_mapping with the fields of columns 2 and 3 exchanged.
column_mapping_swapped ==
    [col_idx \in 1..8 |->
        IF col_idx = 2 THEN Fields[3] ELSE IF col_idx = 3 THEN Fields[2]
        ELSE Fields[col_idx]]

\* column_mapping: table column index -> field
column_mapping == [col_idx \in 1..8 |-> Fields[col_idx]]

\* the text of the data cell in column col_idx for the row of age_allowances
DataCell(age_allowances, col_idx) ==
    IF DOMAIN age_allowances # {} /\ col_idx \in DOMAIN column_mapping
    THEN format_currency(Get(age_allowances, column_mapping[col_idx], <<>>))
    ELSE <<>>

\* the cells of table.rows[row_idx] after the loop body ran for it
AgeRowCells(state_allowances, row_idx) ==
    LET age_key == ages[row_idx]
        age_allowances == Get(state_allowances, age_key, EmptyDict)
    IN  [c \in 1..TableCols |->
            IF c = 1 THEN age_key ELSE DataCell(age_allowances, c - 1)]

\* the cell texts of the table create_state_table builds; table[r] is
\* table.rows[r - 1]
StateTable(data, state_name) ==
    LET state_allowances == Get(data, state_name, EmptyDict)
    IN  [r \in 1..TableRows |->
            IF r = 1 THEN headers
            ELSE IF r - 1 \in DOMAIN ages /\ r - 1 < TableRows
                 THEN AgeRowCells(state_allowances, r - 1)
                 ELSE [c \in 1..TableCols |-> <<>>]]

create_state_table(data, state_name, anchor_name) ==
    [heading |-> state_name, bookmark |-> anchor_name,
     table |-> StateTable(data, state_name)]

(***************************************************************************)
(* The inputs: the file at csv_path and the arguments of the call          *)
(***************************************************************************)

MaxRows == 2

Columns == {"ageFrom", "ageTo", "class"} \cup FieldSet

\* The header lines of the files: complete, without a rate column and the
\* optional ageTo, without 'class', without 'ageFrom'.
Headers ==
    { Columns,
      Columns \ {"FA2", "ageTo"},
      Columns \ {"class"},
      Columns \ {"ageFrom"} }

RawClasses == { <<"a", " ", "b">>, <<" ", "a", " ", "b">>, <<"A", "-", "B", " ">> }

\* ageFrom texts: a band of the table, '64' with white space around it, and
\* an age the table has no row for.
RawAges == { <<"1", "8">>, <<" ", "6", "4", " ">>, <<"6", "5">> }

\* The rate texts a row's fields are filled from.
RateTexts ==
    << <<"1","2","3","4",".","5","0">>, <<"a","b","c">>, <<>>, <<"$">>,
       <<" ","1","9"," ">>, <<"1",",","0","0","0">>, <<"-","1",".","9">>,
       <<"0">> >>

FieldIndex(f) == CHOOSE i \in DOMAIN Fields : Fields[i] = f

\* Rows written with a leading blank before the class hold the rate texts
\* three fields further on, so that rows of one class differ in every field.
RateShift(c) == IF c[1] = " " THEN 3 ELSE 0

FileRow(c, a) ==
    [col \in Columns |->
        IF col = "class" THEN c
        ELSE IF col = "ageFrom" THEN a
        ELSE IF col = "ageTo" THEN a
        ELSE RateTexts[((FieldIndex(col) - 1 + RateShift(c)) % Len(RateTexts)) + 1]]

FileRows == { FileRow(c, a) : c \in RawClasses, a \in RawAges }

Files == UNION { [1..n -> FileRows] : n \in 0..MaxRows }

NewYork == <<"N","e","w"," ","Y","o","r","k">>
CoOp == <<"C","o","-","O","p">>

\* The values of the argument states.
StatesArgs ==
    { NoList, SomeList(<<>>), SomeList(<<NewYork, CoOp>>),
      SomeList(<< <<"a", " ", "b">>, <<"A", "-", "B">> >>) }

Idle ==
    /\ pos = 0
    /\ allowances = EmptyDict
    /\ classes = {}
    /\ states = <<>>
    /\ allowance_data = EmptyDict
    /\ links = <<>>
    /\ sections = <<>>
    /\ saved = FALSE
    /\ error = None

NoFormatCall ==
    /\ fmt_in = <<>>
    /\ fmt_done = FALSE
    /\ fmt_out = <<>>

\* A file that does not exist is <<>>, a file with content x is <<x>>.
NoFile == <<>>

\* The upload form is not in use.
NoForm ==
    /\ disk = [csv |-> NoFile, out |-> NoFile]
    /\ req = EmptyDict

\* A call without csv_path, a call with a csv_path at which no readable file
\* is, and a call with a csv_path naming a file (the explicit list, if any, is
\* then replaced by the classes of the file).
Init ==
    /\ pc = "start"
    /\ Idle
    /\ NoFormatCall
    /\ NoForm
    /\ \/ /\ csv_path = None
          /\ csv_status = "missing"
          /\ header = Columns
          /\ file_rows = <<>>
          /\ states_arg \in StatesArgs
       \/ /\ csv_path = CsvFile
          /\ csv_status \in {"missing", "unreadable"}
          /\ header = Columns
          /\ file_rows = <<>>
          /\ states_arg \in StatesArgs
       \/ /\ csv_path = CsvFile
          /\ csv_status = "ok"
          /\ header \in Headers
          /\ file_rows \in Files
          /\ states_arg \in {NoList, SomeList(<<NewYork, CoOp>>)}

(***************************************************************************)
(* create_ichra_document, step by step                                     *)
(***************************************************************************)

inputs == <<csv_path, csv_status, header, file_rows, states_arg>>
fmt == <<fmt_in, fmt_done, fmt_out>>
app == <<disk, req>>

\* os.path.exists(csv_path)
Exists == csv_status # "missing"

\* lines 214-215 and 149-150: the path exists and the file opens
OpenCsv ==
    /\ pc = "start"
    /\ csv_path # None /\ Exists
    /\ csv_status = "ok"
    /\ pc' = "parse"
    /\ UNCHANGED <<inputs, fmt, app, pos, allowances, classes, states,
                   allowance_data, links, sections, saved, error>>

\* line 149: open() raises
OpenCsvFails ==
    /\ pc = "start"
    /\ csv_path # None /\ Exists
    /\ csv_status = "unreadable"
    /\ pc' = "failed"
    /\ error' = "OSError"
    /\ UNCHANGED <<inputs, fmt, app, pos, allowances, classes, states,
                   allowance_data, links, sections, saved>>

\* lines 214, 217-218: no path, or nothing exists at the path
NoCsv ==
    /\ pc = "start"
    /\ ~(csv_path # None /\ Exists)
    /\ states' = IF states_arg = NoList THEN <<>> ELSE states_arg[1]
    /\ pc' = "title"
    /\ UNCHANGED <<inputs, fmt, app, pos, allowances, classes, allowance_data,
                   links, sections, saved, error>>

\* lines 152-175: one iteration of the loop over the reader
ParseRow ==
    /\ pc = "parse"
    /\ pos < Len(file_rows)
    /\ LET row == DictRow(header, file_rows[pos + 1])
       IN  /\ "class" \in DOMAIN row /\ "ageFrom" \in DOMAIN row
           /\ classes' = classes \cup {Strip(row["class"])}
           /\ allowances' = StoreRow(allowances, row)
    /\ pos' = pos + 1
    /\ UNCHANGED <<inputs, fmt, app, pc, states, allowance_data, links, sections,
                   saved, error>>

\* lines 153-154: row['class'] or row['ageFrom'] raises KeyError
ParseRowKeyError ==
    /\ pc = "parse"
    /\ pos < Len(file_rows)
    /\ LET row == DictRow(header, file_rows[pos + 1])
       IN  ~("class" \in DOMAIN row /\ "ageFrom" \in DOMAIN row)
    /\ pc' = "failed"
    /\ error' = "KeyError"
    /\ UNCHANGED <<inputs, fmt, app, pos, allowances, classes, states,
                   allowance_data, links, sections, saved>>

\* lines 177 and 215: the reader is exhausted
ParseReturn ==
    /\ pc = "parse"
    /\ pos = Len(file_rows)
    /\ states' = Sorted(classes)
    /\ allowance_data' = allowances
    /\ pc' = "title"
    /\ UNCHANGED <<inputs, fmt, app, pos, allowances, classes, links, sections,
                   saved, error>>

\* one title-page line (lines 307-310)
Hyperlink(state) == [text |-> state, anchor |-> AnchorName(state)]

\* lines 305-316
AddHyperlinks ==
    /\ pc = "title"
    /\ links' = IF states # <<>>
                THEN [i \in DOMAIN states |-> Hyperlink(states[i])]
                ELSE <<>>
    /\ pc' = "tables"
    /\ UNCHANGED <<inputs, fmt, app, pos, allowances, classes, states,
                   allowance_data, sections, saved, error>>

\* lines 477-480
CreateStateTables ==
    /\ pc = "tables"
    /\ sections' = [i \in DOMAIN states |->
                      create_state_table(allowance_data, states[i],
                                         AnchorName(states[i]))]
    /\ pc' = "save"
    /\ UNCHANGED <<inputs, fmt, app, pos, allowances, classes, states,
                   allowance_data, links, saved, error>>

\* line 487
Save ==
    /\ pc = "save"
    /\ saved' = TRUE
    /\ pc' = "done"
    /\ UNCHANGED <<inputs, fmt, app, pos, allowances, classes, states,
                   allowance_data, links, sections, error>>

Next ==
    \/ OpenCsv
    \/ OpenCsvFails
    \/ NoCsv
    \/ ParseRow
    \/ ParseRowKeyError
    \/ ParseReturn
    \/ AddHyperlinks
    \/ CreateStateTables
    \/ Save

Spec == Init /\ [][Next]_vars

(***************************************************************************)
(* Direct calls of format_currency                                         *)
(***************************************************************************)

FmtMaxLen == 4

FmtAlphabet == {"0", "1", "9", ".", "-", "+", "$", ",", " ", "a"}

FmtInputs ==
    UNION { [1..n -> FmtAlphabet] : n \in 0..FmtMaxLen }
    \cup { RateTexts[i] : i \in DOMAIN RateTexts }
    \cup { <<"1","2","3","4">>, <<"$","1",",","2","3","4",".","5","0">> }

InitFmt ==
    /\ pc = "idle"
    /\ Idle
    /\ csv_path = None
    /\ csv_status = "missing"
    /\ header = Columns
    /\ file_rows = <<>>
    /\ states_arg = NoList
    /\ fmt_in \in FmtInputs
    /\ fmt_done = FALSE
    /\ fmt_out = <<>>
    /\ NoForm

CallFormatCurrency ==
    /\ ~fmt_done
    /\ fmt_out' = format_currency(fmt_in)
    /\ fmt_done' = TRUE
    /\ UNCHANGED <<inputs, app, pc, pos, allowances, classes, states,
                   allowance_data, links, sections, saved, error, fmt_in>>

NextFmt == CallFormatCurrency

SpecFmt == InitFmt /\ [][NextFmt]_vars

(***************************************************************************)
(* The upload form (src/app.py): the Generate Document handler              *)
(*                                                                         *)
(* Every request runs the handler in a thread of its own; all of them work *)
(* in one directory, on the files temp_allowance.csv and                   *)
(* ICHRA_Allowance_Model.docx.  The document a call of                     *)
(* create_ichra_document builds is represented by the class list and the   *)
(* table it was built from (its sections are StateTable of these).         *)
(***************************************************************************)

Requests == {"r1", "r2"}

\* The content of a file open(..., 'wb') has just truncated.
EmptyFile == [header |-> {}, rows |-> <<>>]

\* The files the users upload: two well-formed files of different classes
\* and a file whose header has no 'class' column.
Uploads ==
    { [header |-> Columns,
       rows |-> << FileRow(<<"a", " ", "b">>, <<"1", "8">>) >>],
      [header |-> Columns,
       rows |-> << FileRow(<<"A", "-", "B", " ">>, <<" ", "6", "4", " ">>) >>],
      [header |-> Columns \ {"class"},
       rows |-> << FileRow(<<"a", " ", "b">>, <<"1", "8">>) >>] }

\* parse_allowance_csv on a file's content: the loop over the rows.  The set
\* classes holds the keys of allowances, so the table alone is carried.
RECURSIVE ParseRows(_, _, _)
ParseRows(h, rows, a) ==
    IF rows = <<>> THEN [ok |-> TRUE, allowances |-> a]
    ELSE LET row == DictRow(h, Head(rows))
         IN  IF "class" \in DOMAIN row /\ "ageFrom" \in DOMAIN row
             THEN ParseRows(h, Tail(rows), StoreRow(a, row))
             ELSE [ok |-> FALSE, allowances |-> a]

ParseFile(file) == ParseRows(file.header, file.rows, EmptyDict)

\* The document built from a class list and a table, as doc.save writes it.
Document(class_list, data) ==
    [complete |-> TRUE, states |-> class_list, data |-> data]

\* The output file between the moment doc.save opens it and the moment it
\* has written it.
PartialDocument == [complete |-> FALSE, states |-> <<>>, data |-> EmptyDict]

NewRequest(file) ==
    [pc |-> "button", upload |-> file, doc |-> PartialDocument,
     doc_bytes |-> NoFile, download |-> NoFile, error_shown |-> FALSE,
     hint_shown |-> FALSE, wrote |-> FALSE, failed |-> FALSE]

InitApp ==
    /\ pc = "idle"
    /\ Idle
    /\ NoFormatCall
    /\ csv_path = None
    /\ csv_status = "missing"
    /\ header = Columns
    /\ file_rows = <<>>
    /\ states_arg = NoList
    /\ disk = [csv |-> NoFile, out |-> NoFile]
    /\ \E files \in [Requests -> Uploads] :
          req = [r \in Requests |-> NewRequest(files[r])]

pipeline == <<inputs, fmt, pc, pos, allowances, classes, states,
              allowance_data, links, sections, saved, error>>

\* A variant of ShowError after which the download button is shown all the
\* same, with whatever the output file held.
ShowErrorAndDownload(q) ==
    [q EXCEPT !.pc = "done", !.error_shown = TRUE, !.hint_shown = TRUE,
              !.download = <<PartialDocument>>]

\* lines 79-82: the except clause
ShowError(q) ==
    [q EXCEPT !.pc = "done", !.error_shown = TRUE, !.hint_shown = TRUE]

\* create_ichra_document raises: nothing was saved, the handler's except
\* clause runs
GenerationFails(q) == ShowError([q EXCEPT !.failed = TRUE])

\* line 50: open(temp_csv, "wb") creates or truncates the file
OpenTempCsv(r) ==
    /\ req[r].pc = "button"
    /\ disk' = [disk EXCEPT !.csv = <<EmptyFile>>]
    /\ req' = [req EXCEPT ![r].pc = "write"]
    /\ UNCHANGED pipeline

\* line 51: the upload is written; a file unlinked in between stays unlinked
WriteTempCsv(r) ==
    /\ req[r].pc = "write"
    /\ disk' = IF disk.csv = NoFile THEN disk
               ELSE [disk EXCEPT !.csv = <<req[r].upload>>]
    /\ req' = [req EXCEPT ![r].pc = "exists"]
    /\ UNCHANGED pipeline

\* allowance.py lines 213-218: os.path.exists(csv_path)
CheckExists(r) ==
    /\ req[r].pc = "exists"
    /\ \/ /\ disk.csv # NoFile
          /\ req' = [req EXCEPT ![r].pc = "open"]
       \/ /\ disk.csv = NoFile
          /\ req' = [req EXCEPT ![r].pc = "save",
                                ![r].doc = Document(<<>>, EmptyDict)]
    /\ UNCHANGED <<disk, pipeline>>

\* allowance.py lines 149-177 and 215: open and parse the file
ParseTempCsv(r) ==
    /\ req[r].pc = "open"
    /\ \/ /\ disk.csv = NoFile
          /\ req' = [req EXCEPT ![r] = GenerationFails(req[r])]
       \/ /\ disk.csv # NoFile
          /\ ~ParseFile(disk.csv[1]).ok
          /\ req' = [req EXCEPT ![r] = GenerationFails(req[r])]
       \/ /\ disk.csv # NoFile
          /\ ParseFile(disk.csv[1]).ok
          /\ LET data == ParseFile(disk.csv[1]).allowances
             IN  req' = [req EXCEPT ![r].pc = "save",
                            ![r].doc = Document(Sorted(DOMAIN data), data)]
    /\ UNCHANGED <<disk, pipeline>>

\* allowance.py line 487: doc.save opens the output file for writing
SaveOpens(r) ==
    /\ req[r].pc = "save"
    /\ disk' = [disk EXCEPT !.out = <<PartialDocument>>]
    /\ req' = [req EXCEPT ![r].pc = "saving", ![r].wrote = TRUE]
    /\ UNCHANGED pipeline

\* allowance.py line 487: doc.save writes the document and closes the file
SaveWrites(r) ==
    /\ req[r].pc = "saving"
    /\ disk' = IF disk.out = NoFile THEN disk
               ELSE [disk EXCEPT !.out = <<req[r].doc>>]
    /\ req' = [req EXCEPT ![r].pc = "read"]
    /\ UNCHANGED pipeline

\* lines 62-63: read the generated file
ReadOutput(r) ==
    /\ req[r].pc = "read"
    /\ \/ /\ disk.out = NoFile
          /\ req' = [req EXCEPT ![r] = ShowError(req[r])]
       \/ /\ disk.out # NoFile
          /\ req' = [req EXCEPT ![r].pc = "rm_csv", ![r].doc_bytes = disk.out]
    /\ UNCHANGED <<disk, pipeline>>

\* line 66: os.remove(temp_csv)
RemoveTempCsv(r) ==
    /\ req[r].pc = "rm_csv"
    /\ \/ /\ disk.csv = NoFile
          /\ req' = [req EXCEPT ![r] = ShowError(req[r])]
          /\ UNCHANGED disk
       \/ /\ disk.csv # NoFile
          /\ disk' = [disk EXCEPT !.csv = NoFile]
          /\ req' = [req EXCEPT ![r].pc = "rm_out"]
    /\ UNCHANGED pipeline

\* line 67: os.remove(output_file)
RemoveOutput(r) ==
    /\ req[r].pc = "rm_out"
    /\ \/ /\ disk.out = NoFile
          /\ req' = [req EXCEPT ![r] = ShowError(req[r])]
          /\ UNCHANGED disk
       \/ /\ disk.out # NoFile
          /\ disk' = [disk EXCEPT !.out = NoFile]
          /\ req' = [req EXCEPT ![r].pc = "offer"]
    /\ UNCHANGED pipeline

\* lines 70-77: the download button
OfferDownload(r) ==
    /\ req[r].pc = "offer"
    /\ req' = [req EXCEPT ![r].pc = "done", ![r].download = req[r].doc_bytes]
    /\ UNCHANGED <<disk, pipeline>>

NextApp ==
    \E r \in Requests :
        \/ OpenTempCsv(r)
        \/ WriteTempCsv(r)
        \/ CheckExists(r)
        \/ ParseTempCsv(r)
        \/ SaveOpens(r)
        \/ SaveWrites(r)
        \/ ReadOutput(r)
        \/ RemoveTempCsv(r)
        \/ RemoveOutput(r)
        \/ OfferDownload(r)

SpecApp == InitApp /\ [][NextApp]_vars

(***************************************************************************)
(* Vocabulary of the properties                                            *)
(***************************************************************************)

\* A decimal numeral: an optional sign, digits, at most one decimal point.
IsNumeral(t) ==
    LET b == IF t # <<>> /\ t[1] \in {"+", "-"} THEN SubSeq(t, 2, Len(t)) ELSE t
    IN  /\ b # <<>>
        /\ \A i \in DOMAIN b : b[i] \in {"0","1","2","3","4","5","6","7","8","9","."}
        /\ \A i, j \in DOMAIN b : b[i] = "." /\ b[j] = "." => i = j
        /\ \E i \in DOMAIN b : b[i] # "."

RECURSIVE DropLeadingZeros(_)
DropLeadingZeros(d) ==
    IF Len(d) > 1 /\ d[1] = "0" THEN DropLeadingZeros(Tail(d)) ELSE d

\* The digits of the integer part of numeral t, as written.
IntegerDigits(t) ==
    LET b == IF t[1] \in {"+", "-"} THEN SubSeq(t, 2, Len(t)) ELSE t
        upto == IF \E i \in DOMAIN b : b[i] = "."
                THEN (CHOOSE i \in DOMAIN b : b[i] = ".") - 1
                ELSE Len(b)
    IN  IF upto = 0 THEN <<"0">> ELSE DropLeadingZeros(SubSeq(b, 1, upto))

\* out is '$', a '-' exactly for a negative numeral with a nonzero integer
\* part, then the integer digits of t with a ',' before every group of three.
IsDollarIntegerOf(out, t) ==
    /\ out # <<>> /\ out[1] = "$"
    /\ LET rest == Tail(out)
           neg == rest # <<>> /\ rest[1] = "-"
           body == IF neg THEN Tail(rest) ELSE rest
       IN  /\ neg <=> (t[1] = "-" /\ IntegerDigits(t) # <<"0">>)
           /\ SelectSeq(body, LAMBDA c : c # ",") = IntegerDigits(t)
           /\ body # <<>> /\ body[1] # ","
           /\ \A i \in DOMAIN body :
                 (body[i] = ",") <=> ((Len(body) - i + 1) % 4 = 0)

\* The label of the table row for the n-th age band, n = 1..47.
AgeLabel(n) ==
    IF n = 47 THEN <<"6", "4", "+">>
    ELSE <<Digits[((17 + n) \div 10) + 1], Digits[((17 + n) % 10) + 1]>>

FieldOfColumn(k) ==
    CASE k = 1 -> "EE" [] k = 2 -> "ES" [] k = 3 -> "EC1" [] k = 4 -> "EC2"
      [] k = 5 -> "ECmax" [] k = 6 -> "FA1" [] k = 7 -> "FA2" [] k = 8 -> "FAmax"

Built == pc \in {"save", "done"}

\* The file was opened and parse_allowance_csv read rows 1..pos of it.
Parsing == pc \in {"parse", "title", "tables", "save", "done"} /\ csv_path # None
              /\ csv_status = "ok"

RowClass(j) == Strip(file_rows[j]["class"])
RowAge(j) == Strip(file_rows[j]["ageFrom"])
RowBand(j) == IF RowAge(j) = <<"6", "4">> THEN <<"6", "4", "+">> ELSE RowAge(j)

(***************************************************************************)
(* C1                                                                      *)
(***************************************************************************)

\* C1 as stated: every class table has 49 rows, a header row and 48 age rows.
C1_FortyNineRows ==
    \A i \in DOMAIN sections :
        /\ Len(sections[i].table) = 49
        /\ Cardinality({r \in 2..Len(sections[i].table) :
                          sections[i].table[r][1] # <<>>}) = 48

\* C1 amended: every class table has exactly 48 rows of 9 cells: the header
\* row, then 47 age rows labelled 18, 19, ..., 63 and finally 64+, whatever
\* age bands the input holds for the class.
C1_FortyEightRows ==
    \A i \in DOMAIN sections :
        LET table == sections[i].table
        IN  /\ Len(table) = 48
            /\ \A r \in DOMAIN table : Len(table[r]) = 9
            /\ table[1] = headers
            /\ \A r \in 2..48 : table[r][1] = AgeLabel(r - 1)

\* A finished document with a table of a class for which the input holds the
\* band 18 and an age the table has no row for.
C1_Witness ==
    /\ pc = "done"
    /\ \E i \in DOMAIN sections :
          /\ sections[i].heading \in DOMAIN allowance_data
          /\ DOMAIN allowance_data[sections[i].heading]
                = {<<"1", "8">>, <<"6", "5">>}

(***************************************************************************)
(* C2                                                                      *)
(***************************************************************************)

\* C2: in every class table the data cell of age band a and column k shows
\* format_currency of field k of AllowanceTable[class][a] when that entry
\* exists and is blank otherwise; building the tables raises no error.
C2_CellsFollowTable ==
    /\ Built => error = None /\ Len(sections) = Len(states)
    /\ \A i \in DOMAIN sections :
          LET class == sections[i].heading
              table == sections[i].table
          IN  \A n \in 1..47 :
                 IF class \in DOMAIN allowance_data
                    /\ AgeLabel(n) \in DOMAIN allowance_data[class]
                 THEN LET entry == allowance_data[class][AgeLabel(n)]
                      IN  \A k \in 1..8 :
                             table[n + 1][k + 1]
                                = format_currency(entry[FieldOfColumn(k)])
                 ELSE \A k \in 1..8 : table[n + 1][k + 1] = <<>>

\* A table with the row of age 18 filled from the input ("1234.50" under EE,
\* "abc" under ES) and the row of age 19 blank.
C2_Witness ==
    /\ pc = "done"
    /\ \E i \in DOMAIN sections :
          /\ sections[i].table[2][2] = <<"$", "1", ",", "2", "3", "4">>
          /\ sections[i].table[2][3] = <<"a", "b", "c">>
          /\ \A k \in 2..9 : sections[i].table[3][k] = <<>>

(***************************************************************************)
(* C3                                                                      *)
(***************************************************************************)

\* C3 as stated, read in its favour (a string counts as a parseable number
\* when a numeral is left after its '$' and ',' are removed): a number yields
\* '$' and its integer part with separators, the empty string yields the
\* empty string, every other non-empty string is returned unchanged.
C3_StatedRule ==
    fmt_done =>
        LET t == Strip(SelectSeq(fmt_in, LAMBDA c : c \notin {"$", ","}))
        IN  IF fmt_in = <<>> THEN fmt_out = <<>>
            ELSE IF IsNumeral(t) THEN IsDollarIntegerOf(fmt_out, t)
            ELSE fmt_out = fmt_in

\* C3 amended: with every '$' and ',' removed and the rest trimmed, a string
\* of which nothing remains yields the empty string, one of which a numeral
\* remains yields '$' and the numeral's integer part (decimals dropped, not
\* rounded) with thousands separators, and any other string is returned
\* unchanged.
C3_CleanedRule ==
    fmt_done =>
        LET t == Strip(SelectSeq(fmt_in, LAMBDA c : c \notin {"$", ","}))
        IN  IF t = <<>> THEN fmt_out = <<>>
            ELSE IF IsNumeral(t) THEN IsDollarIntegerOf(fmt_out, t)
            ELSE fmt_out = fmt_in

\* format_currency("1234.50") returned "$1,234".
C3_Witness ==
    /\ fmt_done
    /\ fmt_in = <<"1", "2", "3", "4", ".", "5", "0">>
    /\ fmt_out = <<"$", "1", ",", "2", "3", "4">>

(***************************************************************************)
(* C4                                                                      *)
(***************************************************************************)

\* The data cells of the document together with the rate text each renders.
RenderedCells ==
    { <<i, n, k>> \in (DOMAIN sections) \X (1..47) \X (1..8) :
         /\ sections[i].heading \in DOMAIN allowance_data
         /\ AgeLabel(n) \in DOMAIN allowance_data[sections[i].heading] }

RateText(cell) ==
    allowance_data[sections[cell[1]].heading][AgeLabel(cell[2])][FieldOfColumn(cell[3])]

CellText(cell) == sections[cell[1]].table[cell[2] + 1][cell[3] + 1]

Unparseable(v) ==
    ~IsNumeral(Strip(SelectSeq(v, LAMBDA c : c \notin {"$", ","})))

\* C4 as stated: a rate text that is no number renders as a blank cell.
C4_UnparseableBlank ==
    \A cell \in RenderedCells : Unparseable(RateText(cell)) => CellText(cell) = <<>>

\* C4 amended: a rate text that is no number is not fatal; its cell shows the
\* text unchanged, and is blank only when nothing but '$', ',' and white
\* space is in it; the other cells of the row are rendered as usual.
C4_UnparseableUnchanged ==
    /\ Built => error = None /\ Len(sections) = Len(states)
    /\ \A cell \in RenderedCells :
          LET v == RateText(cell)
              t == Strip(SelectSeq(v, LAMBDA c : c \notin {"$", ","}))
          IN  /\ Unparseable(v) /\ t # <<>> => CellText(cell) = v
              /\ t = <<>> => CellText(cell) = <<>>
              /\ ~Unparseable(v) => CellText(cell)[1] = "$"

\* A finished document showing "abc" in a cell beside "$1,234".
C4_Witness ==
    /\ pc = "done"
    /\ \E cell \in RenderedCells :
          /\ RateText(cell) = <<"a", "b", "c">>
          /\ CellText(cell) = <<"a", "b", "c">>
          /\ cell[3] > 1
          /\ CellText(<<cell[1], cell[2], cell[3] - 1>>) = <<"$", "1", ",", "2", "3", "4">>

(***************************************************************************)
(* C5                                                                      *)
(***************************************************************************)

\* C5: called with a csv_path at which nothing exists or which cannot be
\* opened, create_ichra_document fails: it never completes and never saves a
\* document, with or without an explicit class list.
C5_MissingInputIsFatal ==
    (csv_path # None /\ csv_status \in {"missing", "unreadable"}) =>
        (pc # "done" /\ ~saved)

(***************************************************************************)
(* C6                                                                      *)
(***************************************************************************)

\* C6: when the header of the file lacks 'class' or 'ageFrom', loading fails:
\* generation never completes and saves nothing, also when no data row
\* follows the header.
C6_MissingColumnIsFatal ==
    (csv_path # None /\ csv_status = "ok"
        /\ ~({"class", "ageFrom"} \subseteq header)) =>
        (pc # "done" /\ ~saved)

(***************************************************************************)
(* C7                                                                      *)
(***************************************************************************)

\* The anchor of a class name: lower-cased, ' ' and '-' turned into '_'.
AnchorOf(name) ==
    [i \in DOMAIN name |->
        CASE name[i] \in {" ", "-"} -> "_"
          [] name[i] = "A" -> "a" [] name[i] = "B" -> "b" [] name[i] = "C" -> "c"
          [] name[i] = "N" -> "n" [] name[i] = "O" -> "o" [] name[i] = "Y" -> "y"
          [] OTHER -> name[i]]

\* C7: in the finished document there is one link and one section per class,
\* in ClassList order; the link of a class and the bookmark of its section
\* both carry the anchor of the class, and no other section carries it.
C7_LinkReachesOwnSection ==
    pc = "done" =>
        /\ Len(links) = Len(states) /\ Len(sections) = Len(states)
        /\ \A i \in DOMAIN states :
              /\ links[i].text = states[i]
              /\ sections[i].heading = states[i]
              /\ links[i].anchor = AnchorOf(states[i])
              /\ sections[i].bookmark = AnchorOf(states[i])
              /\ \A j \in DOMAIN states :
                    j # i => sections[j].bookmark # links[i].anchor

(***************************************************************************)
(* C8                                                                      *)
(***************************************************************************)

\* The rows read so far that carry the key (class c, band a).
RowsWithKey(c, a) == {j \in 1..pos : RowClass(j) = c /\ RowBand(j) = a}

LastRowWithKey(c, a) ==
    CHOOSE j \in RowsWithKey(c, a) : \A m \in RowsWithKey(c, a) : m <= j

\* The trimmed text of field f in row j; '' when the file has no column f.
RowField(j, f) == IF f \in header THEN Strip(file_rows[j][f]) ELSE <<>>

\* C8: after any rows were read, the rate row stored under a key holds the
\* eight (trimmed) fields of the last row read with that key, nothing of an
\* earlier row; a repeated key raises no error.
C8_LastRowWins ==
    Parsing =>
        /\ error = None
        /\ \A j \in 1..pos :
              LET c == RowClass(j)
                  a == RowBand(j)
                  last == LastRowWithKey(c, a)
              IN  /\ c \in DOMAIN allowances
                  /\ a \in DOMAIN allowances[c]
                  /\ allowances[c][a] = [f \in FieldSet |-> RowField(last, f)]

\* Two rows with the same key and different rates were read.
C8_Witness ==
    /\ Parsing /\ pos = 2
    /\ RowClass(1) = RowClass(2) /\ RowBand(1) = RowBand(2)
    /\ RowField(1, "EE") # RowField(2, "EE")
    /\ RowField(1, "EC1") = <<>> /\ RowField(2, "EC1") # <<>>

(***************************************************************************)
(* C9                                                                      *)
(***************************************************************************)

\* C9: the keys of the table are exactly the pairs (trimmed class, band) of
\* the rows read, where the band of a row is its trimmed ageFrom, except that
\* "64" becomes "64+".
C9_RowKeys ==
    Parsing =>
        /\ \A j \in 1..pos :
              /\ RowClass(j) \in DOMAIN allowances
              /\ RowAge(j) = <<"6", "4">> =>
                    <<"6", "4", "+">> \in DOMAIN allowances[RowClass(j)]
              /\ RowAge(j) # <<"6", "4">> =>
                    RowAge(j) \in DOMAIN allowances[RowClass(j)]
        /\ \A c \in DOMAIN allowances : \A a \in DOMAIN allowances[c] :
              /\ a # <<"6", "4">>
              /\ \E j \in 1..pos :
                    /\ RowClass(j) = c
                    /\ a = <<"6", "4", "+">> \/ a = RowAge(j)

\* A row with class " a b" and ageFrom " 64 " was stored under ("a b", "64+").
C9_Witness ==
    /\ Parsing /\ pos >= 1
    /\ file_rows[1]["class"] = <<" ", "a", " ", "b">>
    /\ file_rows[1]["ageFrom"] = <<" ", "6", "4", " ">>
    /\ <<"a", " ", "b">> \in DOMAIN allowances
    /\ <<"6", "4", "+">> \in DOMAIN allowances[<<"a", " ", "b">>]

(***************************************************************************)
(* C10                                                                     *)
(***************************************************************************)

\* s precedes t in lexicographic order by code point.
Precedes(s, t) ==
    \/ Len(s) < Len(t) /\ SubSeq(t, 1, Len(s)) = s
    \/ \E i \in 1..Len(s) :
          /\ i <= Len(t)
          /\ SubSeq(s, 1, i - 1) = SubSeq(t, 1, i - 1)
          /\ Ord(s[i]) < Ord(t[i])

\* C10: the class list parse_allowance_csv returns holds exactly the trimmed
\* class names of the rows, case preserved, each once, in ascending order.
C10_ClassList ==
    (Parsing /\ pc # "parse") =>
        /\ {states[i] : i \in DOMAIN states}
              = {RowClass(j) : j \in 1..Len(file_rows)}
        /\ \A i, j \in DOMAIN states : i < j => Precedes(states[i], states[j])

\* Rows of "a b", " a b" and "A-B " gave the class list <<"A-B", "a b">>.
C10_Witness ==
    /\ Parsing /\ pc = "done" /\ Len(file_rows) = 2
    /\ file_rows[1]["class"] = <<"a", " ", "b">>
    /\ file_rows[2]["class"] = <<"A", "-", "B", " ">>
    /\ states = << <<"A", "-", "B">>, <<"a", " ", "b">> >>

(***************************************************************************)
(* C11                                                                     *)
(***************************************************************************)

\* The age bands: "18", "19", ..., "63" and "64+".
Bands == {AgeLabel(n) : n \in 1..47}

\* C11: after any rows were loaded, the keys stored for every class are age
\* bands; no other key is in the table built by parse_allowance_csv or in the
\* table create_ichra_document works with.
C11_KeysAreBands ==
    /\ \A c \in DOMAIN allowances : DOMAIN allowances[c] \subseteq Bands
    /\ \A c \in DOMAIN allowance_data : DOMAIN allowance_data[c] \subseteq Bands

(***************************************************************************)
(* C12                                                                     *)
(***************************************************************************)

\* The document create_ichra_document builds from the upload of request r.
OwnDocument(r) ==
    LET data == ParseFile(req[r].upload).allowances
    IN  [complete |-> TRUE, states |-> Sorted(DOMAIN data), data |-> data]

\* C12: requests that overlap do not affect each other: the document offered
\* to a request is the one built from its own upload, and a request is shown
\* an error only when its own upload cannot be loaded.
C12_RequestsIndependent ==
    \A r \in DOMAIN req :
        /\ req[r].download # NoFile => req[r].download = <<OwnDocument(r)>>
        /\ req[r].error_shown => ~ParseFile(req[r].upload).ok

(***************************************************************************)
(* C13                                                                     *)
(***************************************************************************)

\* C13: a request whose call of create_ichra_document failed has written
\* nothing to the output file, is offered no download, and is shown the
\* error message together with the hint about the required columns.
C13_FailureOffersNothing ==
    \A r \in DOMAIN req :
        req[r].failed =>
            /\ ~req[r].wrote
            /\ req[r].download = NoFile
            /\ req[r].pc = "done"
            /\ req[r].error_shown /\ req[r].hint_shown

\* A request whose upload has no 'class' column ended with the error message
\* while the other request got its download.
C13_Witness ==
    \E r, o \in DOMAIN req :
        /\ req[r].failed /\ req[r].pc = "done" /\ req[r].error_shown
        /\ "class" \notin req[r].upload.header
        /\ o # r /\ req[o].download # NoFile

====
